---- MODULE Spec2Model ----
(***************************************************************************)
(* Local Food Wastage Management (task4/app.py, task4/init_db.py).         *)
(*                                                                         *)
(* The four SQLite tables of init_db.create_tables, the CRUD forms and     *)
(* delete buttons of the "CRUD" tab, and the read queries of the Explore,  *)
(* Queries, Alerts and Reports tabs.  A table is the set of its rows, a    *)
(* row is a record keyed by the column names of the schema.                *)
(***************************************************************************)
EXTENDS Integers, FiniteSets, Sequences, TLC

\* Largest rowid the model lets food_listings and claims reach: an INSERT is
\* taken only while the rowid it would assign is at most MaxId.
MaxId == 2

\* Largest number of rows init_db.main is let load into a table.
MaxRows == 201

\* SQL NULL in an INTEGER column; rowids and form inputs are all >= 0.
NULL == -1

VARIABLES
    providers,       \* table providers
    receivers,       \* table receivers
    food_listings,   \* table food_listings
    claims,          \* table claims
    in_transaction,  \* conn.in_transaction: an implicit BEGIN not yet committed
    error,           \* exception raised by the last request ("" when none)
    message,         \* st.success / st.warning text of the last CRUD request
    view,            \* tables rendered by the last read request
    script           \* where each session's script run stands inside run_exec

vars == <<providers, receivers, food_listings, claims, in_transaction, error, message,
          view, script>>
tables == <<providers, receivers, food_listings, claims>>

\* The database as one value: what a statement reads and what it leaves.
DB == [providers |-> providers, receivers |-> receivers,
       food_listings |-> food_listings, claims |-> claims]

ProviderIds(db) == {p.provider_id : p \in db.providers}
ReceiverIds(db) == {r.receiver_id : r \in db.receivers}
FoodIds(db) == {f.food_id : f \in db.food_listings}
ClaimIds(db) == {c.claim_id : c \in db.claims}

Max(S) == CHOOSE x \in S : \A y \in S : y <= x

\* INTEGER PRIMARY KEY without AUTOINCREMENT: an INSERT that names no id gets
\* the largest rowid in the table plus one, or 1 in an empty table.
NextId(ids) == IF ids = {} THEN 1 ELSE Max(ids) + 1

(***************************************************************************)
(* Storage: the SQLite statements the CRUD tab sends through run_exec.     *)
(***************************************************************************)

\* PRAGMA foreign_keys = ON, set on the one shared connection.
mut_foreign_keys_off == FALSE
foreign_keys == TRUE

\* Outcome of cur.execute: a statement either runs to its end, or raises
\* sqlite3.IntegrityError and leaves the database as it found it.
Done(db) == [raised |-> FALSE, db |-> db]
Raise(db) == [raised |-> TRUE, db |-> db]

\* FOREIGN KEY(child) REFERENCES parent: a non-NULL child value must name a
\* parent row; enforced only while foreign_keys is on.
References(id, parentIds) == (~foreign_keys) \/ id = NULL \/ id \in parentIds

\* food_listings.provider_id ... ON DELETE SET NULL
mut_provider_fk_cascade(food, id) == {f \in food : f.provider_id # id}
provider_fk_on_delete(food, id) ==
    {IF f.provider_id = id THEN [f EXCEPT !.provider_id = NULL] ELSE f : f \in food}

\* claims.receiver_id ... ON DELETE SET NULL
receiver_fk_on_delete(cl, id) ==
    {IF c.receiver_id = id THEN [c EXCEPT !.receiver_id = NULL] ELSE c : c \in cl}

\* claims.food_id ... ON DELETE CASCADE
mut_food_fk_set_null(cl, id) ==
    {IF c.food_id = id THEN [c EXCEPT !.food_id = NULL] ELSE c : c \in cl}
mut_food_fk_by_claim_id(cl, id) == {c \in cl : c.claim_id # id}
food_fk_on_delete(cl, id) == {c \in cl : c.food_id # id}

INSERT_providers(db, name, ptype, address, city, contact) ==
    Done([db EXCEPT !.providers = @ \cup
        {[provider_id |-> NextId(ProviderIds(db)), name |-> name, type |-> ptype,
          address |-> address, city |-> city, contact |-> contact]}])

mut_UPDATE_providers_upsert(db, pid, name, ptype, address, city, contact) ==
    Done([db EXCEPT !.providers = {p \in @ : p.provider_id # pid} \cup
        {[provider_id |-> pid, name |-> name, type |-> ptype,
          address |-> address, city |-> city, contact |-> contact]}])
UPDATE_providers(db, pid, name, ptype, address, city, contact) ==
    Done([db EXCEPT !.providers =
        {IF p.provider_id = pid
           THEN [provider_id |-> pid, name |-> name, type |-> ptype,
                 address |-> address, city |-> city, contact |-> contact]
           ELSE p : p \in @}])

DELETE_providers(db, id) ==
    Done([db EXCEPT
        !.providers = {p \in @ : p.provider_id # id},
        !.food_listings = IF foreign_keys /\ id \in ProviderIds(db)
                            THEN provider_fk_on_delete(@, id) ELSE @])

INSERT_receivers(db, name, rtype, city, contact) ==
    Done([db EXCEPT !.receivers = @ \cup
        {[receiver_id |-> NextId(ReceiverIds(db)), name |-> name, type |-> rtype,
          city |-> city, contact |-> contact]}])

UPDATE_receivers(db, rid, name, rtype, city, contact) ==
    Done([db EXCEPT !.receivers =
        {IF r.receiver_id = rid
           THEN [receiver_id |-> rid, name |-> name, type |-> rtype,
                 city |-> city, contact |-> contact]
           ELSE r : r \in @}])

DELETE_receivers(db, id) ==
    Done([db EXCEPT
        !.receivers = {r \in @ : r.receiver_id # id},
        !.claims = IF foreign_keys /\ id \in ReceiverIds(db)
                     THEN receiver_fk_on_delete(@, id) ELSE @])

INSERT_food_listings(db, fname, qty, expiry, pid, ptype, location, ftype, mtype) ==
    IF References(pid, ProviderIds(db))
      THEN Done([db EXCEPT !.food_listings = @ \cup
             {[food_id |-> NextId(FoodIds(db)), food_name |-> fname, quantity |-> qty,
               expiry_date |-> expiry, provider_id |-> pid, provider_type |-> ptype,
               location |-> location, food_type |-> ftype, meal_type |-> mtype]}])
      ELSE Raise(db)

UPDATE_food_listings(db, fid, fname, qty, expiry, pid, ptype, location, ftype, mtype) ==
    IF fid \notin FoodIds(db) \/ References(pid, ProviderIds(db))
      THEN Done([db EXCEPT !.food_listings =
             {IF f.food_id = fid
                THEN [food_id |-> fid, food_name |-> fname, quantity |-> qty,
                      expiry_date |-> expiry, provider_id |-> pid, provider_type |-> ptype,
                      location |-> location, food_type |-> ftype, meal_type |-> mtype]
                ELSE f : f \in @}])
      ELSE Raise(db)

DELETE_food_listings(db, id) ==
    Done([db EXCEPT
        !.food_listings = {f \in @ : f.food_id # id},
        !.claims = IF foreign_keys /\ id \in FoodIds(db)
                     THEN food_fk_on_delete(@, id) ELSE @])

INSERT_claims(db, fid, rid, status, ts) ==
    IF References(fid, FoodIds(db)) /\ References(rid, ReceiverIds(db))
      THEN Done([db EXCEPT !.claims = @ \cup
             {[claim_id |-> NextId(ClaimIds(db)), food_id |-> fid, receiver_id |-> rid,
               status |-> status, timestamp |-> ts]}])
      ELSE Raise(db)

UPDATE_claims(db, cid, fid, rid, status, ts) ==
    IF cid \notin ClaimIds(db)
         \/ (References(fid, FoodIds(db)) /\ References(rid, ReceiverIds(db)))
      THEN Done([db EXCEPT !.claims =
             {IF c.claim_id = cid
                THEN [claim_id |-> cid, food_id |-> fid, receiver_id |-> rid,
                      status |-> status, timestamp |-> ts]
                ELSE c : c \in @}])
      ELSE Raise(db)

DELETE_claims(db, id) == Done([db EXCEPT !.claims = {c \in @ : c.claim_id # id}])

\* What a request that renders no table leaves in view.
NoView == [tab |-> ""]

\* The browser sessions.  Streamlit runs the script of each session in a
\* thread of its own, and st.cache_resource hands all of them the one
\* connection.  A script run is outside run_exec, or it has returned from
\* cur.execute and has conn.commit() and the message msg still to come.
Sessions == {"s1", "s2"}
Outside == [at |-> "outside", msg |-> ""]
BeforeCommit(msg) == [at |-> "conn.commit", msg |-> msg]

\* run_exec, then the st.success / st.warning that follows it: what the
\* request leaves.  sqlite3 opens a transaction before the statement;
\* conn.commit() is reached only when cur.execute returns, and an exception
\* skips the message too.
run_exec(r, msg) ==
    [db |-> r.db,
     in_transaction |-> r.raised,
     error |-> IF r.raised THEN "IntegrityError" ELSE "",
     message |-> IF r.raised THEN "" ELSE msg]

\* The state after a CRUD request with outcome o.
Respond(o) ==
    /\ providers' = o.db.providers
    /\ receivers' = o.db.receivers
    /\ food_listings' = o.db.food_listings
    /\ claims' = o.db.claims
    /\ in_transaction' = o.in_transaction
    /\ error' = o.error
    /\ message' = o.message
    /\ view' = NoView
    /\ script' = script

(***************************************************************************)
(* CRUD tab.  Each form and each delete button is one request.  D is the   *)
(* record of the small sets the form inputs are drawn from.                *)
(***************************************************************************)

\* form "add_provider": Save
add_provider_form(db, pid, name, ptype, address, city, contact) ==
    IF pid > 0
      THEN run_exec(UPDATE_providers(db, pid, name, ptype, address, city, contact),
                    "Provider updated")
      ELSE run_exec(INSERT_providers(db, name, ptype, address, city, contact),
                    "Provider added")

add_provider(D) ==
    \E pid \in D.pid, name \in D.name, ptype \in D.text, address \in D.text,
       city \in D.text, contact \in D.text :
        /\ pid > 0 \/ NextId(ProviderIds(DB)) \in D.new_pid
        /\ Respond(add_provider_form(DB, pid, name, ptype, address, city, contact))

\* button "Delete Provider"
Delete_Provider_button(db, del_id) ==
    run_exec(DELETE_providers(db, del_id), "Provider deleted (if existed)")

Delete_Provider(D) ==
    \E del_id \in D.del_p :
        /\ del_id >= 0
        /\ Respond(Delete_Provider_button(DB, del_id))

\* form "add_receiver": Save
add_receiver_form(db, rid, name, rtype, city, contact) ==
    IF rid > 0
      THEN run_exec(UPDATE_receivers(db, rid, name, rtype, city, contact),
                    "Receiver updated")
      ELSE run_exec(INSERT_receivers(db, name, rtype, city, contact),
                    "Receiver added")

add_receiver(D) ==
    \E rid \in D.rid, name \in D.rname, rtype \in D.text, city \in D.text,
       contact \in D.text :
        /\ rid > 0 \/ NextId(ReceiverIds(DB)) \in D.new_rid
        /\ Respond(add_receiver_form(DB, rid, name, rtype, city, contact))

\* button "Delete Receiver"
Delete_Receiver_button(db, del_id) ==
    run_exec(DELETE_receivers(db, del_id), "Receiver deleted (if existed)")

Delete_Receiver(D) ==
    \E del_id \in D.del_r :
        /\ del_id >= 0
        /\ Respond(Delete_Receiver_button(DB, del_id))

\* st.number_input(..., min_value=m): of the numbers a user may type, the
\* ones the widget hands to the script.
mut_number_input_no_min_value(typed, min_value) == typed
number_input(typed, min_value) == {v \in typed : v >= min_value}

\* form "add_food": Save
add_food_form(db, fid, fname, qty, expiry, pid, ptype, location, ftype, mtype) ==
    IF fid > 0
      THEN run_exec(UPDATE_food_listings(db, fid, fname, qty, expiry, pid, ptype,
                                         location, ftype, mtype),
                    "Food updated")
      ELSE run_exec(INSERT_food_listings(db, fname, qty, expiry, pid, ptype,
                                         location, ftype, mtype),
                    "Food added")

add_food(D) ==
    \E fid \in D.fid, fname \in D.fname, qty \in number_input(D.quantity, 0),
       expiry \in D.expiry, pid \in D.f_pid, kind \in D.kind :
        /\ fid > 0 \/ NextId(FoodIds(DB)) \in D.new_fid
        /\ Respond(add_food_form(DB, fid, fname, qty, expiry, pid, kind.provider_type,
                                 kind.location, kind.food_type, kind.meal_type))

\* button "Delete Food"
Delete_Food_button(db, del_id) ==
    run_exec(DELETE_food_listings(db, del_id), "Food deleted (if existed)")

Delete_Food(D) ==
    \E del_id \in D.del_f :
        /\ del_id >= 0
        /\ Respond(Delete_Food_button(DB, del_id))

\* form "add_claim": Save
add_claim_form(db, cid, fid, rid, status, ts) ==
    IF cid > 0
      THEN run_exec(UPDATE_claims(db, cid, fid, rid, status, ts), "Claim updated")
      ELSE run_exec(INSERT_claims(db, fid, rid, status, ts), "Claim added")

add_claim(D) ==
    \E cid \in D.cid, fid \in D.c_fid, rid \in D.c_rid, status \in D.status,
       ts \in D.ts :
        /\ cid > 0 \/ NextId(ClaimIds(DB)) \in D.new_cid
        /\ Respond(add_claim_form(DB, cid, fid, rid, status, ts))

\* button "Delete Claim"
Delete_Claim_button(db, del_id) ==
    run_exec(DELETE_claims(db, del_id), "Claim deleted (if existed)")

Delete_Claim(D) ==
    \E del_id \in D.del_c :
        /\ del_id >= 0
        /\ Respond(Delete_Claim_button(DB, del_id))

\* st.text_input gives "" when left empty; a date typed as YYYY-MM-DD is
\* written <<d>>, d its day number, and the empty text <<>>.
ISO(d) == <<d>>
NoText == <<>>

\* The database init_db.create_tables leaves: four empty tables.
Init ==
    /\ providers = {}
    /\ receivers = {}
    /\ food_listings = {}
    /\ claims = {}
    /\ in_transaction = FALSE
    /\ error = ""
    /\ message = ""
    /\ view = NoView
    /\ script = [s \in Sessions |-> Outside]

\* The ids a number_input of the model can hold: 0 is "new" in a form and
\* names no row elsewhere.
Ids == 0..MaxId

\* The provider type, location, food type and meal type typed into the food form.
Kind(ptype, location, ftype, mtype) ==
    [provider_type |-> ptype, location |-> location, food_type |-> ftype,
     meal_type |-> mtype]

\* Inputs of the CRUD specification.  pid, rid, fid, cid are the "... ID"
\* inputs of the four forms, f_pid, c_fid, c_rid the parent ids typed into
\* the food and claim forms, del_* the four delete inputs; new_* are the
\* rowids an INSERT is let assign.  One provider and one receiver at a time
\* (deleted and added again), up to MaxId listings and claims.  A quantity is
\* typed as 1 or as -2.
DomCrud ==
    [pid |-> {0, 1, 2}, rid |-> {0, 1, 2}, fid |-> Ids, cid |-> Ids,
     f_pid |-> {0, 1, 2}, c_fid |-> Ids, c_rid |-> {0, 1, 2},
     del_p |-> {0, 1, 2}, del_r |-> {0, 1, 2}, del_f |-> Ids, del_c |-> Ids,
     new_pid |-> {1}, new_rid |-> {1}, new_fid |-> 1..MaxId, new_cid |-> 1..MaxId,
     name |-> {"Asha"}, rname |-> {"Ravi"}, text |-> {""},
     fname |-> {"Rice"}, quantity |-> {-2, 1}, expiry |-> {NoText},
     kind |-> {Kind("", "", "", "")},
     status |-> {"Pending"}, ts |-> {"2025-01-01 00:00:00"}]

Next ==
    \/ add_provider(DomCrud)
    \/ Delete_Provider(DomCrud)
    \/ add_receiver(DomCrud)
    \/ Delete_Receiver(DomCrud)
    \/ add_food(DomCrud)
    \/ Delete_Food(DomCrud)
    \/ add_claim(DomCrud)
    \/ Delete_Claim(DomCrud)

Spec == Init /\ [][Next]_vars

(***************************************************************************)
(* Read requests.  run_query executes one SELECT and commits nothing; the  *)
(* request leaves the tables as they are and renders its result.           *)
(***************************************************************************)

\* What a read request leaves besides the tables it renders: no message, no
\* exception, and the tables and the connection as they were.
mut_run_query_only_drops_claims ==
    /\ message' = ""
    /\ error' = ""
    /\ claims' = {c \in claims : c.claim_id # Max(ClaimIds(DB) \cup {0})}
    /\ UNCHANGED <<providers, receivers, food_listings, in_transaction, script>>
run_query_only ==
    /\ message' = ""
    /\ error' = ""
    /\ UNCHANGED <<providers, receivers, food_listings, claims, in_transaction, script>>

\* A list holding the members of S once each (the order a widget or a
\* SELECT DISTINCT hands them over in is not fixed by the program).
RECURSIVE ListOf(_)
ListOf(S) ==
    IF S = {} THEN <<>>
    ELSE LET x == CHOOSE y \in S : TRUE IN <<x>> \o ListOf(S \ {x})

(***************************************************************************)
(* Explore tab: the filter over food_listings.                             *)
(***************************************************************************)

\* SELECT DISTINCT <column> FROM food_listings, then dropna().tolist()
distinct_options(db, column) == {f[column] : f \in db.food_listings}

\* The query text and the bound parameters: " AND <column> IN (?,...,?)" is
\* appended, and the selection added to params, for each non-empty selection.
mut_explore_query_params_swapped(sel_cities, sel_provider_types, sel_food_types, sel_meal_types) ==
    [where |->
        (IF sel_cities # <<>> THEN <<[column |-> "location", n |-> Len(sel_cities)]>> ELSE <<>>)
        \o (IF sel_provider_types # <<>>
              THEN <<[column |-> "provider_type", n |-> Len(sel_provider_types)]>> ELSE <<>>)
        \o (IF sel_food_types # <<>>
              THEN <<[column |-> "food_type", n |-> Len(sel_food_types)]>> ELSE <<>>)
        \o (IF sel_meal_types # <<>>
              THEN <<[column |-> "meal_type", n |-> Len(sel_meal_types)]>> ELSE <<>>),
     params |-> sel_provider_types \o sel_cities \o sel_food_types \o sel_meal_types]
explore_query(sel_cities, sel_provider_types, sel_food_types, sel_meal_types) ==
    [where |->
        (IF sel_cities # <<>> THEN <<[column |-> "location", n |-> Len(sel_cities)]>> ELSE <<>>)
        \o (IF sel_provider_types # <<>>
              THEN <<[column |-> "provider_type", n |-> Len(sel_provider_types)]>> ELSE <<>>)
        \o (IF sel_food_types # <<>>
              THEN <<[column |-> "food_type", n |-> Len(sel_food_types)]>> ELSE <<>>)
        \o (IF sel_meal_types # <<>>
              THEN <<[column |-> "meal_type", n |-> Len(sel_meal_types)]>> ELSE <<>>),
     params |-> sel_cities \o sel_provider_types \o sel_food_types \o sel_meal_types]

\* WHERE 1=1 AND c1 IN (?..) AND c2 IN (?..) ...: each IN takes the next n
\* parameters, in the order the placeholders appear.
RECURSIVE where_holds(_, _, _)
where_holds(row, where, params) ==
    IF where = <<>> THEN TRUE
    ELSE LET cl == Head(where) IN
         /\ row[cl.column] \in {params[i] : i \in 1..cl.n}
         /\ where_holds(row, Tail(where), SubSeq(params, cl.n + 1, Len(params)))

\* run_query(query, tuple(params)) for the Explore query: SELECT * FROM food_listings ...
explore_rows(db, q) == {f \in db.food_listings : where_holds(f, q.where, q.params)}

\* The Explore tab with the four multiselects set to subsets of their options.
tab_explore ==
    \E sel_cities \in SUBSET distinct_options(DB, "location"),
       sel_provider_types \in SUBSET distinct_options(DB, "provider_type"),
       sel_food_types \in SUBSET distinct_options(DB, "food_type"),
       sel_meal_types \in SUBSET distinct_options(DB, "meal_type") :
        /\ view' =
              [tab |-> "explore",
               sel_cities |-> sel_cities, sel_provider_types |-> sel_provider_types,
               sel_food_types |-> sel_food_types, sel_meal_types |-> sel_meal_types,
               rows |-> explore_rows(DB,
                           explore_query(ListOf(sel_cities), ListOf(sel_provider_types),
                                         ListOf(sel_food_types), ListOf(sel_meal_types)))]
        /\ run_query_only

\* Inputs of the Explore specification: listings of the one provider, of five
\* kinds: one kind and the four that differ from it in one filtered column.
DomExplore ==
    [pid |-> {0}, rid |-> {0}, fid |-> Ids, cid |-> {0},
     f_pid |-> {1}, c_fid |-> {0}, c_rid |-> {0},
     del_p |-> {0}, del_r |-> {0}, del_f |-> Ids, del_c |-> {0},
     new_pid |-> {}, new_rid |-> {}, new_fid |-> 1..MaxId, new_cid |-> {},
     name |-> {"Asha"}, rname |-> {"Ravi"}, text |-> {""},
     fname |-> {"Rice"}, quantity |-> {1}, expiry |-> {NoText},
     kind |-> {Kind("Restaurant", "Delhi", "Veg", "Lunch"),
               Kind("Grocery", "Delhi", "Veg", "Lunch"),
               Kind("Restaurant", "Pune", "Veg", "Lunch"),
               Kind("Restaurant", "Delhi", "Vegan", "Lunch"),
               Kind("Restaurant", "Delhi", "Veg", "Dinner")},
     status |-> {"Pending"}, ts |-> {"2025-01-01 00:00:00"}]

\* A database init_db.main has loaded one provider into.
InitOneProvider ==
    /\ providers = {[provider_id |-> 1, name |-> "Asha", type |-> "", address |-> "",
                     city |-> "", contact |-> ""]}
    /\ receivers = {}
    /\ food_listings = {}
    /\ claims = {}
    /\ in_transaction = FALSE
    /\ error = ""
    /\ message = ""
    /\ view = NoView
    /\ script = [s \in Sessions |-> Outside]

NextExplore ==
    \/ add_food(DomExplore)
    \/ Delete_Food(DomExplore)
    \/ tab_explore

SpecExplore == InitOneProvider /\ [][NextExplore]_vars

(***************************************************************************)
(* Alerts and Reports tabs.  A result is written as the set of table rows  *)
(* the WHERE clause keeps; the column list and ORDER BY are not modelled.  *)
(***************************************************************************)

\* SQLite date(text): the day of a YYYY-MM-DD text, NULL for any other text.
date(text) == IF Len(text) = 1 THEN text[1] ELSE NULL

\* SQLite date('now', '+n day'), 'now' being day today.
date_now(today, n) == today + n

\* SQLite LOWER() on the status texts of the model.
LOWER(text) ==
    CASE text = "Pending" -> "pending"
      [] text = "Completed" -> "completed"
      [] text = "Cancelled" -> "cancelled"
      [] OTHER -> text

\* 1. Expiring food in next 3 days:
\*    ... FROM food_listings WHERE date(expiry_date) <= date('now', '+3 day')
expiring_food(db, today) ==
    {f \in db.food_listings :
        date(f.expiry_date) # NULL /\ date(f.expiry_date) <= date_now(today, 3)}

\* 2. Low stock: ... FROM food_listings WHERE quantity <= 5
low_stock(db) == {f \in db.food_listings : f.quantity # NULL /\ f.quantity <= 5}

\* 3. Pending claims: claims c JOIN receivers r ON c.receiver_id = r.receiver_id
\*    JOIN food_listings f ON c.food_id = f.food_id WHERE LOWER(c.status) = 'pending'
pending_claims(db) ==
    {[claim_id |-> c.claim_id, receiver |-> r.name, food_name |-> f.food_name,
      status |-> c.status, timestamp |-> c.timestamp] :
        <<c, r, f>> \in
            {j \in db.claims \X db.receivers \X db.food_listings :
                /\ j[1].receiver_id # NULL /\ j[1].receiver_id = j[2].receiver_id
                /\ j[1].food_id # NULL /\ j[1].food_id = j[3].food_id
                /\ LOWER(j[1].status) = "pending"}}

\* The Alerts tab on day today: the three result tables, and for each whether
\* the alert (st.error / st.warning) or the all-clear is shown.
tab_alerts(D) ==
    \E today \in D.today :
        /\ view' =
              [tab |-> "alerts", today |-> today,
               expiring_food |-> expiring_food(DB, today),
               expiring_alert |-> expiring_food(DB, today) # {},
               low_stock |-> low_stock(DB),
               low_stock_alert |-> low_stock(DB) # {},
               pending_claims |-> pending_claims(DB),
               pending_alert |-> pending_claims(DB) # {}]
        /\ run_query_only

\* Report "Expiring Soon Food":
\*    SELECT * FROM food_listings WHERE date(expiry_date) <= date('now', '+3 day')
mut_report_expiring_5_day(db, today) ==
    {f \in db.food_listings :
        date(f.expiry_date) # NULL /\ date(f.expiry_date) <= date_now(today, 5)}
report_expiring_soon_food(db, today) ==
    {f \in db.food_listings :
        date(f.expiry_date) # NULL /\ date(f.expiry_date) <= date_now(today, 3)}

\* The five reports of the Reports tab.
report(db, report_choice, today) ==
    CASE report_choice = "Providers List" -> db.providers
      [] report_choice = "Receivers List" -> db.receivers
      [] report_choice = "Food Listings" -> db.food_listings
      [] report_choice = "Claims" -> db.claims
      [] report_choice = "Expiring Soon Food" -> report_expiring_soon_food(db, today)

report_names ==
    {"Providers List", "Receivers List", "Food Listings", "Claims", "Expiring Soon Food"}

\* The Reports tab on day today with one report chosen.
tab_reports(D) ==
    \E report_choice \in report_names, today \in D.today :
        /\ view' = [tab |-> "reports", today |-> today, report_choice |-> report_choice,
                    df |-> report(DB, report_choice, today)]
        /\ run_query_only

\* Inputs of the Alerts specification: listings of the one provider with no
\* date or one of two dates, read on the days around them.
DomAlerts ==
    [pid |-> {0}, rid |-> {0}, fid |-> Ids, cid |-> {0},
     f_pid |-> {1}, c_fid |-> {0}, c_rid |-> {0},
     del_p |-> {0}, del_r |-> {0}, del_f |-> Ids, del_c |-> {0},
     new_pid |-> {}, new_rid |-> {}, new_fid |-> 1..MaxId, new_cid |-> {},
     name |-> {"Asha"}, rname |-> {"Ravi"}, text |-> {""},
     fname |-> {"Rice"}, quantity |-> {5, 6}, expiry |-> {NoText, ISO(4), ISO(5)},
     kind |-> {Kind("", "", "", "")},
     status |-> {"Pending"}, ts |-> {"2025-01-01 00:00:00"},
     today |-> 0..6]

NextAlerts ==
    \/ add_food(DomAlerts)
    \/ Delete_Food(DomAlerts)
    \/ tab_alerts(DomAlerts)
    \/ tab_reports(DomAlerts)

SpecAlerts == InitOneProvider /\ [][NextAlerts]_vars

(***************************************************************************)
(* Queries tab: the catalog entries the properties below are about.        *)
(***************************************************************************)

\* providers p LEFT JOIN food_listings fl ON p.provider_id = fl.provider_id
\*             LEFT JOIN claims c ON fl.food_id = c.food_id
\* as rows of (p.name, p.provider_id, fl.food_id, c.claim_id); a side with no
\* match is NULL.
providers_listings_claims(db) ==
    LET pf == UNION {
              LET fs == {f \in db.food_listings :
                            f.provider_id # NULL /\ f.provider_id = p.provider_id}
              IN IF fs = {}
                   THEN {[name |-> p.name, provider_id |-> p.provider_id, food_id |-> NULL]}
                   ELSE {[name |-> p.name, provider_id |-> p.provider_id,
                          food_id |-> f.food_id] : f \in fs}
              : p \in db.providers}
    IN UNION {
         LET cs == {c \in db.claims : c.food_id # NULL /\ c.food_id = j.food_id}
         IN IF cs = {}
              THEN {[name |-> j.name, provider_id |-> j.provider_id,
                     food_id |-> j.food_id, claim_id |-> NULL]}
              ELSE {[name |-> j.name, provider_id |-> j.provider_id,
                     food_id |-> j.food_id, claim_id |-> c.claim_id] : c \in cs}
         : j \in pf}

\* SQLite a*1.0 / b for counts a, b >= 0: NULL when b = 0, else the quotient,
\* written as the fraction a/b in lowest terms (NULL is written 0/0).
RECURSIVE gcd(_, _)
gcd(a, b) == IF b = 0 THEN a ELSE gcd(b, a % b)
real_div(a, b) ==
    IF b = 0 THEN [num |-> 0, den |-> 0]
    ELSE [num |-> a \div gcd(a, b), den |-> b \div gcd(a, b)]

\* "Claim to listing ratio by provider":
\*    SELECT p.name, COUNT(DISTINCT c.claim_id)*1.0 / COUNT(DISTINCT fl.food_id)
\*    FROM providers p LEFT JOIN ... GROUP BY p.name
claim_to_listing_ratio_by_provider(db) ==
    LET j == providers_listings_claims(db) IN
    {[name |-> n,
      claim_to_listing_ratio |->
          real_div(Cardinality({r.claim_id : r \in {x \in j : x.name = n}} \ {NULL}),
                   Cardinality({r.food_id : r \in {x \in j : x.name = n}} \ {NULL}))] :
        n \in {r.name : r \in j}}

\* SUM(column) over a group of rows: NULL values are skipped, and the sum of
\* no value at all is NULL.
RECURSIVE SumOf(_)
SumOf(values) ==
    IF values = <<>> THEN 0 ELSE Head(values) + SumOf(Tail(values))
SUM(rows, column) ==
    LET present == {r \in rows : r[column] # NULL}
    IN IF present = {} THEN NULL
       ELSE SumOf([i \in 1..Cardinality(present) |-> ListOf(present)[i][column]])

\* "Total quantity donated by provider":
\*    SELECT p.name, SUM(fl.quantity) AS total_donated
\*    FROM food_listings fl JOIN providers p ON fl.provider_id = p.provider_id
\*    GROUP BY p.name
total_quantity_donated_by_provider(db) ==
    LET j == {[name |-> p.name, food_id |-> f.food_id, quantity |-> f.quantity] :
                 <<f, p>> \in {x \in db.food_listings \X db.providers :
                                  /\ x[1].provider_id # NULL
                                  /\ x[1].provider_id = x[2].provider_id}}
    IN {[name |-> n, total_donated |-> SUM({r \in j : r.name = n}, "quantity")] :
          n \in {r.name : r \in j}}

\* "Claims status distribution":
\*    SELECT LOWER(status) AS status, COUNT(*) AS cnt FROM claims
\*    GROUP BY LOWER(status)
claims_status_distribution(db) ==
    {[status |-> s, cnt |-> Cardinality({c \in db.claims : LOWER(c.status) = s})] :
        s \in {LOWER(c.status) : c \in db.claims}}

\* "Claim completion percentage":
\*    SELECT status, COUNT(*) * 100.0 / (SELECT COUNT(*) FROM claims) AS percentage
\*    FROM claims GROUP BY status
\* The percentage is the exact quotient, of which the REAL SQLite returns is
\* the nearest double.
mut_claim_completion_percentage_of_group(db) ==
    {[status |-> s,
      percentage |-> real_div(Cardinality({c \in db.claims : c.status = s}) * 100,
                              Cardinality({c \in db.claims : c.status = s}))] :
        s \in {c.status : c \in db.claims}}
claim_completion_percentage(db) ==
    {[status |-> s,
      percentage |-> real_div(Cardinality({c \in db.claims : c.status = s}) * 100,
                              Cardinality(db.claims))] :
        s \in {c.status : c \in db.claims}}

\* "Receivers with most completed claims":
\*    SELECT r.name, COUNT(c.claim_id) AS completed_claims
\*    FROM claims c JOIN receivers r ON c.receiver_id = r.receiver_id
\*    WHERE LOWER(c.status) = 'completed' GROUP BY r.name
receivers_with_most_completed_claims(db) ==
    LET j == {[name |-> r.name, claim_id |-> c.claim_id] :
                 <<c, r>> \in {x \in db.claims \X db.receivers :
                                  /\ x[1].receiver_id # NULL
                                  /\ x[1].receiver_id = x[2].receiver_id
                                  /\ LOWER(x[1].status) = "completed"}}
    IN {[name |-> n, completed_claims |-> Cardinality({r \in j : r.name = n})] :
          n \in {r.name : r \in j}}

\* "Food items with most cancelled claims":
\*    SELECT fl.food_name, COUNT(c.claim_id) AS cancelled_claims
\*    FROM claims c JOIN food_listings fl ON c.food_id = fl.food_id
\*    WHERE LOWER(c.status) = 'cancelled' GROUP BY fl.food_name
food_items_with_most_cancelled_claims(db) ==
    LET j == {[food_name |-> f.food_name, claim_id |-> c.claim_id] :
                 <<c, f>> \in {x \in db.claims \X db.food_listings :
                                  /\ x[1].food_id # NULL
                                  /\ x[1].food_id = x[2].food_id
                                  /\ LOWER(x[1].status) = "cancelled"}}
    IN {[food_name |-> n,
         cancelled_claims |-> Cardinality({r \in j : r.food_name = n})] :
          n \in {r.food_name : r \in j}}

\* "Expired food listings":
\*    SELECT * FROM food_listings WHERE date(expiry_date) < date('now')
expired_food_listings(db, today) ==
    {f \in db.food_listings :
        date(f.expiry_date) # NULL /\ date(f.expiry_date) < date_now(today, 0)}

\* "Food listings expiring in next 7 days":
\*    SELECT * FROM food_listings
\*    WHERE date(expiry_date) BETWEEN date('now') AND date('now', '+7 day')
food_listings_expiring_in_next_7_days(db, today) ==
    {f \in db.food_listings :
        /\ date(f.expiry_date) # NULL
        /\ date_now(today, 0) <= date(f.expiry_date)
        /\ date(f.expiry_date) <= date_now(today, 7)}

\* The catalog: what the entry named q_choice returns when run on day today.
queries(db, q_choice, today) ==
    CASE q_choice = "Claim to listing ratio by provider" ->
             claim_to_listing_ratio_by_provider(db)
      [] q_choice = "Total quantity donated by provider" ->
             total_quantity_donated_by_provider(db)
      [] q_choice = "Claims status distribution" ->
             claims_status_distribution(db)
      [] q_choice = "Claim completion percentage" ->
             claim_completion_percentage(db)
      [] q_choice = "Receivers with most completed claims" ->
             receivers_with_most_completed_claims(db)
      [] q_choice = "Food items with most cancelled claims" ->
             food_items_with_most_cancelled_claims(db)
      [] q_choice = "Expired food listings" ->
             expired_food_listings(db, today)
      [] q_choice = "Food listings expiring in next 7 days" ->
             food_listings_expiring_in_next_7_days(db, today)

\* list(queries.keys()): the options of the selectbox "Choose a query".
queries_keys ==
    {"Providers per city",
     "Top 5 cities by number of providers",
     "Receivers per city",
     "Top 5 cities by number of receivers",
     "Average donations per provider",
     "Average claims per receiver",
     "Provider type contribution (by total quantity)",
     "Most donated food items",
     "Expired food listings",
     "Food listings expiring in next 7 days",
     "Top receivers by number of claims",
     "Receivers with most completed claims",
     "Food items with most cancelled claims",
     "Claims per food item",
     "Provider with highest completed claims",
     "Claims status distribution",
     "Claim completion percentage",
     "Avg quantity per receiver (approx)",
     "Top 5 receivers by quantity claimed",
     "Most-claimed meal type",
     "Average time between listing and claim",
     "Claim to listing ratio by provider",
     "Total quantity donated by provider"}

\* What the Queries tab does with the chosen entry: the table it shows, if
\* any, and the exception it raises, if any.
Shown(rows) == [shown |-> TRUE, rows |-> rows, error |-> ""]
NotShown(exception) == [shown |-> FALSE, rows |-> {}, error |-> exception]

\* "Listings nearing expiry (<= N days)":
\*    SELECT * FROM food_listings WHERE date(expiry_date) <= date('now', ?)
listings_nearing_expiry(db, days, today) ==
    {f \in db.food_listings :
        date(f.expiry_date) # NULL /\ date(f.expiry_date) <= date_now(today, days)}

\* The if / elif / else under the selectbox.  city is the text of the "City"
\* input ("" when left empty) and days the number in "Days from now"; the
\* first branch looks its entry up in queries, and a name that is no key of
\* queries raises KeyError.
q_choice_dispatch(db, q_choice, city, days, today) ==
    IF q_choice = "Provider contacts in selected city"
      THEN IF city # ""
             THEN IF q_choice \in queries_keys
                    THEN Shown({p \in db.providers : p.city = city})
                    ELSE NotShown("KeyError")
             ELSE NotShown("")
    ELSE IF q_choice = "Listings nearing expiry (<= N days)"
      THEN Shown(listings_nearing_expiry(db, days, today))
    ELSE Shown(queries(db, q_choice, today))

\* The Queries tab on day today with one catalog entry chosen.  The "City"
\* and "Days from now" inputs exist in their own branches only; they are
\* given here as a rerun first shows them, empty and 3.
tab_queries(D) ==
    \E q_choice \in D.q_choice \cap queries_keys, today \in D.today :
        /\ view' = [tab |-> "queries", q_choice |-> q_choice, today |-> today,
                    rows |-> q_choice_dispatch(DB, q_choice, "", 3, today).rows]
        /\ run_query_only

\* Inputs of the Claims specification: providers under two names, listings of
\* either provider, claims by the first receiver in two statuses, and the
\* receivers deleted again.
DomClaims ==
    [pid |-> {0}, rid |-> {0}, fid |-> {0}, cid |-> Ids,
     f_pid |-> {1, 2}, c_fid |-> Ids \ {0}, c_rid |-> {1},
     del_p |-> {0}, del_r |-> {1}, del_f |-> {0}, del_c |-> {0},
     new_pid |-> {1, 2}, new_rid |-> {1}, new_fid |-> 1..MaxId, new_cid |-> 1..MaxId,
     name |-> {"Asha", "Bela"}, rname |-> {"Ravi"}, text |-> {""},
     fname |-> {"Rice"}, quantity |-> {1}, expiry |-> {NoText},
     kind |-> {Kind("", "", "", "")},
     status |-> {"Pending", "Completed"}, ts |-> {"2025-01-01 00:00:00"},
     today |-> {0},
     q_choice |-> {"Claim to listing ratio by provider",
                   "Total quantity donated by provider"}]

NextClaims ==
    \/ add_provider(DomClaims)
    \/ add_receiver(DomClaims)
    \/ Delete_Receiver(DomClaims)
    \/ add_food(DomClaims)
    \/ add_claim(DomClaims)
    \/ tab_alerts(DomClaims)
    \/ tab_queries(DomClaims)

SpecClaims == Init /\ [][NextClaims]_vars

(***************************************************************************)
(* Insights tab, and the store init_db.main loads.                         *)
(***************************************************************************)

\* SUBSTR(timestamp, 1, 7) on the timestamps of the model.
SUBSTR_1_7(text) ==
    CASE text = "2025-01-01 00:00:00" -> "2025-01"
      [] text = "2025-02-01 00:00:00" -> "2025-02"

\* "Claims Status Trend":
\*    SELECT SUBSTR(timestamp, 1, 7) AS month, status, COUNT(*) AS cnt
\*    FROM claims GROUP BY month, status
df_claims_trend(db) ==
    {[month |-> g[1], status |-> g[2],
      cnt |-> Cardinality({c \in db.claims :
                             SUBSTR_1_7(c.timestamp) = g[1] /\ c.status = g[2]})] :
        g \in {<<SUBSTR_1_7(c.timestamp), c.status>> : c \in db.claims}}

\* The Insights tab: the claims trend chart, or the st.info shown in its place.
tab_insights ==
    /\ view' = [tab |-> "insights", df_claims_trend |-> df_claims_trend(DB),
                info |-> IF df_claims_trend(DB) = {}
                           THEN "No claims data available to display trend."
                           ELSE ""]
    /\ run_query_only

\* init_db.main: the tables as the four CSV files fill them.  The rows go in
\* as they are read, on a connection that enforces the foreign keys.
main(providers_csv, receivers_csv, food_csv, claims_csv) ==
    [providers |-> providers_csv, receivers |-> receivers_csv,
     food_listings |-> food_csv, claims |-> claims_csv]

\* Inputs of the Queries specification: claims on the one listing by the one
\* receiver, saved in the three statuses of the form, and every read request.
DomQueries ==
    [pid |-> {0}, rid |-> {0}, fid |-> {0}, cid |-> Ids,
     f_pid |-> {0}, c_fid |-> {1}, c_rid |-> {1},
     del_p |-> {0}, del_r |-> {0}, del_f |-> {0}, del_c |-> Ids,
     new_pid |-> {}, new_rid |-> {}, new_fid |-> {}, new_cid |-> 1..MaxId,
     name |-> {"Asha"}, rname |-> {"Ravi"}, text |-> {""},
     fname |-> {"Rice"}, quantity |-> {1}, expiry |-> {NoText},
     kind |-> {Kind("", "", "", "")},
     status |-> {"Pending", "Completed", "Cancelled"},
     ts |-> {"2025-01-01 00:00:00", "2025-02-01 00:00:00"},
     today |-> {0, 6},
     q_choice |-> {"Claims status distribution", "Claim completion percentage",
                   "Receivers with most completed claims",
                   "Food items with most cancelled claims",
                   "Total quantity donated by provider",
                   "Expired food listings",
                   "Food listings expiring in next 7 days"}]

\* The store the Queries specification starts from: one provider, one
\* receiver and one listing, and the claims file empty or holding one claim
\* whose status is written in lower case.
InitLoaded ==
    \E claims_csv \in {{}, {[claim_id |-> 1, food_id |-> 1, receiver_id |-> 1,
                             status |-> "pending",
                             timestamp |-> "2025-01-01 00:00:00"]}} :
        LET db == main({[provider_id |-> 1, name |-> "Asha", type |-> "",
                         address |-> "", city |-> "", contact |-> ""]},
                       {[receiver_id |-> 1, name |-> "Ravi", type |-> "",
                         city |-> "", contact |-> ""]},
                       {[food_id |-> 1, food_name |-> "Rice", quantity |-> 1,
                         expiry_date |-> ISO(5), provider_id |-> 1,
                         provider_type |-> "", location |-> "",
                         food_type |-> "", meal_type |-> ""]},
                       claims_csv)
        IN /\ providers = db.providers
           /\ receivers = db.receivers
           /\ food_listings = db.food_listings
           /\ claims = db.claims
           /\ in_transaction = FALSE
           /\ error = ""
           /\ message = ""
           /\ view = NoView
           /\ script = [s \in Sessions |-> Outside]

NextQueries ==
    \/ add_claim(DomQueries)
    \/ Delete_Claim(DomQueries)
    \/ tab_queries(DomQueries)
    \/ tab_insights
    \/ tab_alerts(DomQueries)
    \/ tab_reports(DomQueries)

SpecQueries == InitLoaded /\ [][NextQueries]_vars

(***************************************************************************)
(* Overview tab and the browse tables of the CRUD tab, over loaded tables. *)
(***************************************************************************)

\* ORDER BY <column> DESC LIMIT n: the n rows that come first, all of them
\* when there are fewer.  column is a primary key here, so no two rows tie.
ORDER_BY_DESC_LIMIT(rows, column, n) ==
    {r \in rows : Cardinality({q \in rows : q[column] > r[column]}) < n}

\* "Recent Listings":
\*    SELECT food_id, food_name, quantity, expiry_date, location, food_type,
\*           meal_type FROM food_listings ORDER BY food_id DESC LIMIT 20
recent_listings(db) ==
    {[food_id |-> f.food_id, food_name |-> f.food_name, quantity |-> f.quantity,
      expiry_date |-> f.expiry_date, location |-> f.location,
      food_type |-> f.food_type, meal_type |-> f.meal_type] :
        f \in ORDER_BY_DESC_LIMIT(db.food_listings, "food_id", 20)}

\* The Overview tab.
tab_overview ==
    /\ view' = [tab |-> "overview", recent_listings |-> recent_listings(DB)]
    /\ run_query_only

\* The tables shown above the four forms of the CRUD tab:
\*    SELECT * FROM providers ORDER BY provider_id
\*    SELECT * FROM receivers ORDER BY receiver_id
\*    SELECT * FROM food_listings ORDER BY food_id DESC LIMIT 200
\*    SELECT * FROM claims ORDER BY claim_id DESC LIMIT 200
browse_providers(db) == db.providers
browse_receivers(db) == db.receivers
browse_food_listings(db) == ORDER_BY_DESC_LIMIT(db.food_listings, "food_id", 200)
browse_claims(db) == ORDER_BY_DESC_LIMIT(db.claims, "claim_id", 200)

\* The CRUD tab, rendered with no button pressed.
tab_crud ==
    /\ view' = [tab |-> "crud",
                providers |-> browse_providers(DB),
                receivers |-> browse_receivers(DB),
                food_listings |-> browse_food_listings(DB),
                claims |-> browse_claims(DB)]
    /\ run_query_only

\* The numbers of rows a loaded table holds in the Browse specification:
\* none, one more than the Overview shows, and the most and one more than
\* the most that a browse table with a LIMIT shows.
LoadedSizes == {0, 21, MaxRows - 1, MaxRows}

\* The store the Browse specification starts from: np providers and np
\* receivers, nf listings spread over the providers (of none when there is
\* no provider), and a claim on each listing.
InitBrowse ==
    \E np \in LoadedSizes, nf \in LoadedSizes :
        LET db == main({[provider_id |-> i, name |-> "Asha", type |-> "",
                         address |-> "", city |-> "", contact |-> ""] : i \in 1..np},
                       {[receiver_id |-> i, name |-> "Ravi", type |-> "",
                         city |-> "", contact |-> ""] : i \in 1..np},
                       {[food_id |-> i, food_name |-> "Rice", quantity |-> 1,
                         expiry_date |-> NoText,
                         provider_id |-> IF i <= np THEN i ELSE NULL,
                         provider_type |-> "", location |-> "",
                         food_type |-> "", meal_type |-> ""] : i \in 1..nf},
                       {[claim_id |-> i, food_id |-> i,
                         receiver_id |-> IF i <= np THEN i ELSE NULL,
                         status |-> "Pending",
                         timestamp |-> "2025-01-01 00:00:00"] : i \in 1..nf})
        IN /\ providers = db.providers
           /\ receivers = db.receivers
           /\ food_listings = db.food_listings
           /\ claims = db.claims
           /\ in_transaction = FALSE
           /\ error = ""
           /\ message = ""
           /\ view = NoView
           /\ script = [s \in Sessions |-> Outside]

\* Inputs of the Browse specification: the first two providers and listings
\* deleted.
DomBrowse ==
    [pid |-> {0}, rid |-> {0}, fid |-> {0}, cid |-> {0},
     f_pid |-> {0}, c_fid |-> {0}, c_rid |-> {0},
     del_p |-> {1, 2}, del_r |-> {0}, del_f |-> {1, 2}, del_c |-> {0},
     new_pid |-> {}, new_rid |-> {}, new_fid |-> {}, new_cid |-> {},
     name |-> {"Asha"}, rname |-> {"Ravi"}, text |-> {""},
     fname |-> {"Rice"}, quantity |-> {1}, expiry |-> {NoText},
     kind |-> {Kind("", "", "", "")},
     status |-> {"Pending"}, ts |-> {"2025-01-01 00:00:00"}]

NextBrowse ==
    \/ Delete_Provider(DomBrowse)
    \/ Delete_Food(DomBrowse)
    \/ tab_overview
    \/ tab_crud

SpecBrowse == InitBrowse /\ [][NextBrowse]_vars

(***************************************************************************)
(* Two sessions on the one connection.  run_exec is two calls on conn,     *)
(* cur.execute and conn.commit(), and the program holds no lock around     *)
(* them: another session's thread may run between the two.  Each call is   *)
(* one step (the sqlite3 module runs one call on a connection at a time).  *)
(***************************************************************************)

\* run_exec, first call: session s sends the statement with outcome r.  The
\* sqlite3 module opens a transaction before it; an exception leaves
\* run_exec, and the script run, there and then.
cur_execute(s, r, msg) ==
    /\ script[s] = Outside
    /\ providers' = r.db.providers
    /\ receivers' = r.db.receivers
    /\ food_listings' = r.db.food_listings
    /\ claims' = r.db.claims
    /\ in_transaction' = TRUE
    /\ error' = IF r.raised THEN "IntegrityError" ELSE ""
    /\ message' = ""
    /\ view' = NoView
    /\ script' = [script EXCEPT ![s] = IF r.raised THEN Outside ELSE BeforeCommit(msg)]

\* run_exec, second call, and the st.success after it: conn.commit() ends
\* the transaction of the connection, whichever session's statements are in it.
conn_commit ==
    \E s \in Sessions :
        /\ script[s].at = "conn.commit"
        /\ in_transaction' = FALSE
        /\ message' = script[s].msg
        /\ script' = [script EXCEPT ![s] = Outside]
        /\ UNCHANGED <<providers, receivers, food_listings, claims, error, view>>

\* form "add_provider": Save, up to the return of cur.execute
add_provider_execute(D) ==
    \E s \in Sessions, pid \in D.pid, name \in D.name, ptype \in D.text,
       address \in D.text, city \in D.text, contact \in D.text :
        /\ pid > 0 \/ NextId(ProviderIds(DB)) \in D.new_pid
        /\ IF pid > 0
             THEN cur_execute(s, UPDATE_providers(DB, pid, name, ptype, address, city,
                                                  contact), "Provider updated")
             ELSE cur_execute(s, INSERT_providers(DB, name, ptype, address, city,
                                                  contact), "Provider added")

\* button "Delete Provider", up to the return of cur.execute
Delete_Provider_execute(D) ==
    \E s \in Sessions, del_id \in D.del_p :
        /\ del_id >= 0
        /\ cur_execute(s, DELETE_providers(DB, del_id), "Provider deleted (if existed)")

\* form "add_food": Save, up to the return of cur.execute
add_food_execute(D) ==
    \E s \in Sessions, fid \in D.fid, fname \in D.fname,
       qty \in number_input(D.quantity, 0), expiry \in D.expiry, pid \in D.f_pid, kind \in D.kind :
        /\ fid > 0 \/ NextId(FoodIds(DB)) \in D.new_fid
        /\ IF fid > 0
             THEN cur_execute(s, UPDATE_food_listings(DB, fid, fname, qty, expiry, pid,
                                     kind.provider_type, kind.location,
                                     kind.food_type, kind.meal_type), "Food updated")
             ELSE cur_execute(s, INSERT_food_listings(DB, fname, qty, expiry, pid,
                                     kind.provider_type, kind.location,
                                     kind.food_type, kind.meal_type), "Food added")

\* Inputs of the two-session specification: providers under one name, added,
\* renamed and deleted, and listings of a provider that may be missing.
DomConcurrent ==
    [pid |-> {0, 1}, rid |-> {0}, fid |-> {0}, cid |-> {0},
     f_pid |-> {1, 2}, c_fid |-> {0}, c_rid |-> {0},
     del_p |-> {1}, del_r |-> {0}, del_f |-> {0}, del_c |-> {0},
     new_pid |-> {1, 2}, new_rid |-> {}, new_fid |-> 1..MaxId, new_cid |-> {},
     name |-> {"Asha", "Bela"}, rname |-> {"Ravi"}, text |-> {""},
     fname |-> {"Rice"}, quantity |-> {1}, expiry |-> {NoText},
     kind |-> {Kind("", "", "", "")},
     status |-> {"Pending"}, ts |-> {"2025-01-01 00:00:00"},
     today |-> {0}]

NextConcurrent ==
    \/ add_provider_execute(DomConcurrent)
    \/ Delete_Provider_execute(DomConcurrent)
    \/ add_food_execute(DomConcurrent)
    \/ conn_commit
    \/ tab_reports(DomConcurrent)

SpecConcurrent == Init /\ [][NextConcurrent]_vars

(***************************************************************************)
(* Referential integrity and the CRUD contract (checked under Spec).       *)
(***************************************************************************)

\* C1: in every reachable state every stored claim's food_id is the food_id of
\* a food listing that is present in the store.
C1_ClaimsReferenceListings == \A c \in claims : c.food_id \in FoodIds(DB)

\* C1 case: listing 1 is gone, listing 2 is left and a claim on it is stored.
C1_Witness == FoodIds(DB) = {2} /\ \E c \in claims : c.food_id = 2

\* C2: a step that removes food listing d removes exactly the claims whose
\* food_id is d, removes no other listing, and leaves providers and receivers
\* as they were.
C2_DeleteFoodCascades ==
    [][\A d \in FoodIds(DB) :
         d \notin {f.food_id : f \in food_listings'} =>
            /\ claims' = {c \in claims : c.food_id # d}
            /\ food_listings' = {f \in food_listings : f.food_id # d}
            /\ providers' = providers
            /\ receivers' = receivers]_vars

\* C2 case: "Delete Food" has just run, and one listing with its claim is left
\* while the rowid of another claim is gone.
C2_Witness ==
    /\ message = "Food deleted (if existed)"
    /\ Cardinality(food_listings) = 1
    /\ ClaimIds(DB) = {2}

\* C3: a step that removes provider d removes no listing and no claim; the
\* listings that referenced d keep every field but provider_id, which is NULL.
\* The same for a removed receiver r and the claims that referenced it.
C3_DeletePartyDetaches ==
    [][/\ \A d \in ProviderIds(DB) :
            d \notin {p.provider_id : p \in providers'} =>
               /\ food_listings' =
                    {IF f.provider_id = d THEN [f EXCEPT !.provider_id = NULL] ELSE f :
                       f \in food_listings}
               /\ claims' = claims
       /\ \A r \in ReceiverIds(DB) :
            r \notin {x.receiver_id : x \in receivers'} =>
               /\ claims' =
                    {IF c.receiver_id = r THEN [c EXCEPT !.receiver_id = NULL] ELSE c :
                       c \in claims}
               /\ food_listings' = food_listings]_vars

\* C3 case: a party has just been deleted; a listing is detached from its
\* provider while another still has one, and a claim is detached from its receiver.
C3_Witness ==
    /\ message \in {"Provider deleted (if existed)", "Receiver deleted (if existed)"}
    /\ \E f \in food_listings : f.provider_id = NULL
    /\ \E f \in food_listings : f.provider_id # NULL
    /\ \E c \in claims : c.receiver_id = NULL

\* The outcome o of a request raised nothing and left the database db.
NoOp(o, db) == o.error = "" /\ o.db = db

\* The outcome o of a request raised and left the database db.
RolledBack(o, db) == o.error = "IntegrityError" /\ o.message = "" /\ o.db = db

\* C4: in every reachable state, a create or update of a food listing or of a
\* claim that names a parent row which does not exist raises an error and
\* leaves all four tables as they were.
C4_ConstraintViolationRollsBack ==
    /\ \A fid \in DomCrud.fid, pid \in DomCrud.f_pid :
         (pid \notin ProviderIds(DB) /\ (fid = 0 \/ fid \in FoodIds(DB)))
            => RolledBack(add_food_form(DB, fid, "Rice", 1, NoText, pid, "", "", "", ""), DB)
    /\ \A cid \in DomCrud.cid, fid \in DomCrud.c_fid, rid \in DomCrud.c_rid,
          status \in DomCrud.status, ts \in DomCrud.ts :
         ((fid \notin FoodIds(DB) \/ rid \notin ReceiverIds(DB))
             /\ (cid = 0 \/ cid \in ClaimIds(DB)))
            => RolledBack(add_claim_form(DB, cid, fid, rid, status, ts), DB)
    /\ error = "IntegrityError" => message = ""

\* C4 case: the last request raised while claims were stored; its transaction
\* is still open.
C4_Witness == error = "IntegrityError" /\ claims # {} /\ in_transaction

\* C5: in every reachable state, a delete or an update whose id matches no row
\* of its table raises nothing and leaves all four tables as they were.
C5_AbsentIdIsNoOp ==
    /\ \A id \in DomCrud.pid \ ProviderIds(DB) :
         /\ NoOp(Delete_Provider_button(DB, id), DB)
         /\ id > 0 => NoOp(add_provider_form(DB, id, "Asha", "", "", "", ""), DB)
    /\ \A id \in DomCrud.rid \ ReceiverIds(DB) :
         /\ NoOp(Delete_Receiver_button(DB, id), DB)
         /\ id > 0 => NoOp(add_receiver_form(DB, id, "Ravi", "", "", ""), DB)
    /\ \A id \in DomCrud.fid \ FoodIds(DB), pid \in DomCrud.f_pid :
         /\ NoOp(Delete_Food_button(DB, id), DB)
         /\ id > 0 => NoOp(add_food_form(DB, id, "Rice", 1, NoText, pid, "", "", "", ""), DB)
    /\ \A id \in DomCrud.cid \ ClaimIds(DB), fid \in DomCrud.c_fid, rid \in DomCrud.c_rid,
          status \in DomCrud.status, ts \in DomCrud.ts :
         /\ NoOp(Delete_Claim_button(DB, id), DB)
         /\ id > 0 => NoOp(add_claim_form(DB, id, fid, rid, status, ts), DB)

\* C5 case: "Provider updated" was reported although no provider is stored.
C5_Witness == message = "Provider updated" /\ providers = {}

(***************************************************************************)
(* Explore filter (checked under SpecExplore).                             *)
(***************************************************************************)

\* C6: the rows the Explore tab renders are exactly the food listings that,
\* for each of the four categories with a non-empty selection, have that
\* category's value in the selection; an empty selection constrains nothing.
C6_FilterIsConjunctionOfMemberships ==
    view.tab = "explore" =>
        view.rows =
            {f \in food_listings :
                /\ view.sel_cities = {} \/ f.location \in view.sel_cities
                /\ view.sel_provider_types = {} \/ f.provider_type \in view.sel_provider_types
                /\ view.sel_food_types = {} \/ f.food_type \in view.sel_food_types
                /\ view.sel_meal_types = {} \/ f.meal_type \in view.sel_meal_types}

\* C6 case: two selected cities and one selected provider type, the other two
\* categories left empty; the filter keeps one listing and drops another.
C6_Witness ==
    /\ view.tab = "explore"
    /\ Cardinality(view.sel_cities) = 2
    /\ Cardinality(view.sel_provider_types) = 1
    /\ view.sel_food_types = {}
    /\ view.sel_meal_types = {}
    /\ view.rows # {}
    /\ view.rows # food_listings

\* C18: every stored food listing has a quantity, and it is at least 0, after
\* any sequence of saves and deletes of the CRUD tab on a store that began
\* with no listing of a negative quantity.
C18_QuantityStaysNonNegative ==
    \A f \in food_listings : f.quantity # NULL /\ f.quantity >= 0

\* C18 case: a listing has been saved over an existing one, and two are stored.
C18_Witness ==
    /\ message = "Food updated"
    /\ Cardinality(food_listings) = 2

(***************************************************************************)
(* Expiring-soon alert and report (checked under SpecAlerts).              *)
(***************************************************************************)

\* C7: alert rule 1 returns exactly the food listings whose expiry_date lies
\* in the window today .. today+3, both ends included, and the alert is shown
\* if and only if there is such a listing.
C7_ExpiringSoonIsInclusiveWindow ==
    view.tab = "alerts" =>
        LET window == {f \in food_listings :
                          /\ date(f.expiry_date) # NULL
                          /\ view.today <= date(f.expiry_date)
                          /\ date(f.expiry_date) <= view.today + 3}
        IN /\ view.expiring_food = window
           /\ view.expiring_alert <=> window # {}

\* C8: on the same data and the same day, alert rule 1 and the report
\* "Expiring Soon Food" return the same set of food listings.
C8_AlertAndReportAgree ==
    /\ view.tab = "alerts" =>
          view.expiring_food = report(DB, "Expiring Soon Food", view.today)
    /\ (view.tab = "reports" /\ view.report_choice = "Expiring Soon Food") =>
          view.df = expiring_food(DB, view.today)

\* C8 case: the report is rendered, and it keeps one listing and drops another
\* that has a date too.
C8_Witness ==
    /\ view.tab = "reports"
    /\ view.report_choice = "Expiring Soon Food"
    /\ view.df # {}
    /\ \E f \in food_listings \ view.df : date(f.expiry_date) # NULL

(***************************************************************************)
(* Claims alert and provider ratio (checked under SpecClaims).             *)
(***************************************************************************)

\* C9: alert rule 3 returns exactly the stored claims whose status is
\* "pending" whatever its letter case, and the alert is shown if and only if
\* there is such a claim.
C9_PendingAlertListsEveryPendingClaim ==
    view.tab = "alerts" =>
        LET pending == {c \in claims : LOWER(c.status) = "pending"}
        IN /\ {r.claim_id : r \in view.pending_claims} = {c.claim_id : c \in pending}
           /\ view.pending_alert <=> pending # {}

\* The listings of provider p, and the claims on them.
ListingsOf(p) == {f \in food_listings : f.provider_id = p.provider_id}
ClaimsOn(fs) == {c \in claims : c.food_id \in {f.food_id : f \in fs}}

\* C10: for every stored provider the entry "Claim to listing ratio by
\* provider" has a row under the provider's name whose ratio is NULL when the
\* provider has no listing, and else the number of claims on the provider's
\* listings divided by the number of the provider's listings.
C10_RatioPerProvider ==
    (view.tab = "queries" /\ view.q_choice = "Claim to listing ratio by provider") =>
        \A p \in providers :
            \E r \in view.rows :
                /\ r.name = p.name
                /\ IF ListingsOf(p) = {}
                     THEN r.claim_to_listing_ratio.den = 0
                     ELSE /\ r.claim_to_listing_ratio.den # 0
                          /\ r.claim_to_listing_ratio.num * Cardinality(ListingsOf(p))
                               = Cardinality(ClaimsOn(ListingsOf(p)))
                                   * r.claim_to_listing_ratio.den

\* The quantity of listing f as a sum counts it: a NULL quantity counts 0.
QuantityOrZero(f) == IF f.quantity = NULL THEN 0 ELSE f.quantity

\* C11: for every stored provider that has a food listing, the entry "Total
\* quantity donated by provider" has a row under the provider's name whose
\* total is the sum of the quantities of that provider's listings, a NULL
\* quantity counting 0.
C11_TotalIsSumOfProvidersListings ==
    (view.tab = "queries" /\ view.q_choice = "Total quantity donated by provider") =>
        \A p \in providers :
            ListingsOf(p) # {} =>
                \E r \in view.rows :
                    /\ r.name = p.name
                    /\ r.total_donated =
                          SumOf([i \in 1..Cardinality(ListingsOf(p)) |->
                                    QuantityOrZero(ListOf(ListingsOf(p))[i])])

(***************************************************************************)
(* Status aggregations and read requests (checked under SpecQueries).      *)
(***************************************************************************)

\* The sum of a list of fractions, as a fraction.
RECURSIVE FractionSum(_)
FractionSum(fractions) ==
    IF fractions = <<>> THEN [num |-> 0, den |-> 1]
    ELSE LET a == Head(fractions)
             b == FractionSum(Tail(fractions))
         IN [num |-> a.num * b.den + b.num * a.den, den |-> a.den * b.den]

\* C12: in "Claim completion percentage" every row's value is the number of
\* claims stored with the row's status, times 100, divided by the number of
\* all claims; it lies between 0 and 100; and when there is a claim the
\* values of the rows add up to 100.
C12_PercentagesOfTotalSumTo100 ==
    (view.tab = "queries" /\ view.q_choice = "Claim completion percentage") =>
        /\ \A r \in view.rows :
              /\ r.percentage.den > 0
              /\ r.percentage.num * Cardinality(claims)
                    = Cardinality({c \in claims : c.status = r.status}) * 100
                        * r.percentage.den
              /\ 0 <= r.percentage.num
              /\ r.percentage.num <= 100 * r.percentage.den
        /\ claims # {} =>
              LET total == FractionSum([i \in 1..Cardinality(view.rows) |->
                                           ListOf(view.rows)[i].percentage])
              IN total.num = 100 * total.den

\* C12 case: the entry is rendered over claims stored under two statuses.
C12_Witness ==
    /\ view.tab = "queries"
    /\ view.q_choice = "Claim completion percentage"
    /\ Cardinality(view.rows) = 2

C14_MissingParameterIsAnError ==
    /\ "Provider contacts in selected city" \in queries_keys
    /\ "Listings nearing expiry (<= N days)" \in queries_keys
    /\ \A today \in DomQueries.today :
          q_choice_dispatch(DB, "Provider contacts in selected city", "", 3, today).error
              = "MissingParameter"

\* The stored claims whose status is text up to letter case.
ClaimsWithStatus(text) == {c \in claims : LOWER(c.status) = LOWER(text)}

\* C15: every table that groups or filters claims by status takes statuses
\* that differ only in letter case for one status: "Claims status
\* distribution", "Claim completion percentage" and the claims trend have one
\* row for each such status (and month), which counts all its claims, and
\* the completed and cancelled filters count every claim of that status.
C15_StatusGroupsIgnoreLetterCase ==
    /\ (view.tab = "queries" /\ view.q_choice = "Claims status distribution") =>
          /\ \A r, q \in view.rows : LOWER(r.status) = LOWER(q.status) => r = q
          /\ \A r \in view.rows : r.cnt = Cardinality(ClaimsWithStatus(r.status))
    /\ (view.tab = "queries" /\ view.q_choice = "Claim completion percentage") =>
          /\ \A r, q \in view.rows : LOWER(r.status) = LOWER(q.status) => r = q
          /\ \A r \in view.rows :
                r.percentage.num * Cardinality(claims)
                  = Cardinality(ClaimsWithStatus(r.status)) * 100 * r.percentage.den
    /\ view.tab = "insights" =>
          \A r, q \in view.df_claims_trend :
              (r.month = q.month /\ LOWER(r.status) = LOWER(q.status)) => r = q
    /\ (view.tab = "queries" /\ view.q_choice = "Receivers with most completed claims") =>
          \A r \in view.rows :
              r.completed_claims =
                Cardinality({c \in ClaimsWithStatus("completed") :
                               \E x \in receivers : /\ x.receiver_id = c.receiver_id
                                                     /\ x.name = r.name})
    /\ (view.tab = "queries" /\ view.q_choice = "Food items with most cancelled claims") =>
          \A r \in view.rows :
              r.cancelled_claims =
                Cardinality({c \in ClaimsWithStatus("cancelled") :
                               \E x \in food_listings : /\ x.food_id = c.food_id
                                                         /\ x.food_name = r.food_name})

(***************************************************************************)
(* Concurrent sessions (checked under SpecConcurrent).                     *)
(***************************************************************************)

\* The sessions that have executed a write statement and not yet committed.
InRunExec == {s \in Sessions : script[s].at = "conn.commit"}

\* C16: at most one session at a time is between the cur.execute and the
\* conn.commit() of a write, and while one is, the next call on the shared
\* connection is that session's commit: no statement and no commit of
\* another request comes in between.
C16_WritesAreSerialized ==
    [][/\ Cardinality(InRunExec) <= 1
       /\ \A s \in InRunExec : script' = [script EXCEPT ![s] = Outside]
      ]_vars

(***************************************************************************)
(* Bounded result sets (checked under SpecBrowse).                         *)
(***************************************************************************)

\* C17: "Recent Listings" shows at most 20 rows, and each of the four browse
\* tables of the CRUD tab at most 200, however many rows the tables hold.
C17_BrowseViewsAreBounded ==
    /\ view.tab = "overview" => Cardinality(view.recent_listings) <= 20
    /\ view.tab = "crud" =>
          /\ Cardinality(view.providers) <= 200
          /\ Cardinality(view.receivers) <= 200
          /\ Cardinality(view.food_listings) <= 200
          /\ Cardinality(view.claims) <= 200

====
